---------------------------- MODULE Spec2Model ----------------------------
(***************************************************************************)
(* A model of the bird-sql-agent text-to-SQL pipeline:                     *)
(*   utils.py        load_schema, execute_query, extract_sql               *)
(*   agent_system.py process_text_to_sql (Selector, Decomposer, Refiner,   *)
(*                   execute-and-repair step)                              *)
(*   evaluate.py     compare_results, evaluate_on_benchmark,               *)
(*                   analyze_errors                                        *)
(*   main.py         main                                                  *)
(*                                                                         *)
(* Text is a sequence of symbols.  A symbol is one character ("BT" is the  *)
(* backtick, "NL" the line feed, "SP" the blank, ";" and "x" themselves)   *)
(* or one of the letter runs "sql", "select", "SELECT", which the code     *)
(* only ever tests as a whole.                                             *)
(***************************************************************************)
EXTENDS Naturals, Sequences, FiniteSets

VARIABLES
    \* extract_sql applied to one input (utils.py)
    q,          \* the text handed in
    text,       \* the text extract_sql was called on (q, or q in a sql fence)
    extracted,  \* what extract_sql returned
    epc,        \* "idle" | "input" | "plain" | "fenced"
    \* compare_results applied to one pair of execution results (evaluate.py)
    cmp_gold,       \* its first argument, gold_results
    cmp_pred,       \* its second argument, pred_results
    cmp,            \* compare_results(gold_results, pred_results)
    cmpSwapped,     \* compare_results(pred_results, gold_results)
    cpc,            \* "idle" | "input" | "compared" | "both"
    \* evaluate_on_benchmark (evaluate.py)
    benchmark_data, \* the benchmark items, cut to the sample once selected
    sample_size,    \* the sample_size argument: given or None, and its number
    results,        \* {correct, total, details}, and accuracy at the end
    idx,            \* the loop's index: the questions already processed
    bpc,            \* "idle" | "start" | "loop" | "done" | "aborted"
    files,          \* what has been written to each file
    pred_results,   \* the loop's pred_results, as last assigned
    gold_results,   \* the loop's gold_results, as last assigned
    \* process_text_to_sql (agent_system.py): one call
    request,        \* its arguments: question, db_id, evidence
    ppc,            \* "idle" | "load_schema" | "selector" | "decomposer" |
                    \* "refiner" | "execute" | "fix" | "verify" | "returned" | "raised"
    calls,          \* the generation calls made: role, message, reply
    execs,          \* the execute_query calls made: query, fault, outcome
    selector_output,
    initial_sql,
    final_sql,
    ret,            \* the value returned
    \* the runtime and the database connections
    refcounting,    \* whether the runtime frees an object as soon as nothing refers to it
    unclosed,       \* the functions a connection of which is still open
    raised,         \* the exception that left the program, if any
    \* analyze_errors (evaluate.py): one call
    loaded,         \* its argument, the results read from a results file
    analysis,       \* what it returned
    apc,            \* "idle" | "input" | "analyzed"
    \* load_schema (utils.py): one call on one database
    database,       \* the tables of the database, in sqlite_master order
    schema,         \* the dictionary load_schema returned
    spc,            \* "idle" | "input" | "loaded" | "raised"
    \* main (main.py): one run of the command line
    args,           \* the parsed arguments
    world,          \* what main finds: the backend up or not, the files there or not
    mpc,            \* "idle" | "start" | "dispatch" | "done"
    trace,          \* what main has called so far
    \* optimize_prompts (main.py): one call
    results_file,   \* what the results file holds, if it is there
    selected,       \* the few-shot examples chosen
    enhanced,       \* what was written to the enhanced-prompts file
    opc             \* "idle" | "start" | "analyze" | "select" | "write" |
                    \* "returned" | "raised"

vExtract == <<q, text, extracted, epc>>
vCompare == <<cmp_gold, cmp_pred, cmp, cmpSwapped, cpc>>
vBatch == <<benchmark_data, sample_size, results, idx, bpc, files, pred_results, gold_results>>
vPipeline == <<request, ppc, calls, execs, selector_output, initial_sql, final_sql, ret>>
vRuntime == <<refcounting, unclosed, raised>>
vAnalyze == <<loaded, analysis, apc>>
vSchema == <<database, schema, spc>>
vMain == <<args, world, mpc, trace>>
vOptimize == <<results_file, selected, enhanced, opc>>
vars == <<vExtract, vCompare, vBatch, vPipeline, vRuntime, vAnalyze, vSchema, vMain, vOptimize>>

-----------------------------------------------------------------------------
(* Bounds *)

\* longest symbol-by-symbol input text
MaxLen == 4
\* most lines of a line-by-line input text
MaxLines == 4
\* most rows of an execution result handed to compare_results
MaxRows == 2
\* most items of a benchmark
MaxQuestions == 2
MaxRecords == 2
MaxSteady == 7
MaxTables == 2
MaxSampleRows == 3
MaxExamples == 3
MaxCommonErrors == 3

-----------------------------------------------------------------------------
(* Strings: what str.strip, str.split, str.upper, str.startswith,          *)
(* str.endswith and str.join do                                            *)

Sym == {"BT", "NL", "SP", ";", "x", "sql", "select", "SELECT"}

\* the characters str.strip() removes and the pattern's \s matches
Whitespace == {"SP", "NL"}

RECURSIVE LStrip(_)
LStrip(s) ==
    IF s = <<>> THEN s
    ELSE IF Head(s) \in Whitespace THEN LStrip(Tail(s)) ELSE s

RECURSIVE RStrip(_)
RStrip(s) ==
    IF s = <<>> THEN s
    ELSE IF s[Len(s)] \in Whitespace THEN RStrip(SubSeq(s, 1, Len(s) - 1)) ELSE s

Strip(s) == RStrip(LStrip(s))

Upper(s) ==
    LET UpperSym(c) ==
        CASE c = "select" -> "SELECT"
          [] c = "sql"    -> "SQL"
          [] c = "x"      -> "X"
          [] OTHER        -> c
    IN  [i \in 1..Len(s) |-> UpperSym(s[i])]

StartsWith(s, p) == Len(s) >= Len(p) /\ SubSeq(s, 1, Len(p)) = p

EndsWith(s, p) == Len(s) >= Len(p) /\ SubSeq(s, Len(s) - Len(p) + 1, Len(s)) = p

\* text.split('\n'): always at least one line
RECURSIVE Split(_)
Split(s) ==
    IF \A i \in 1..Len(s) : s[i] # "NL" THEN <<s>>
    ELSE LET i == CHOOSE j \in 1..Len(s) :
                      s[j] = "NL" /\ \A k \in 1..(j - 1) : s[k] # "NL"
         IN  <<SubSeq(s, 1, i - 1)>> \o Split(SubSeq(s, i + 1, Len(s)))

\* " ".join(lines)
RECURSIVE Join(_)
Join(lines) ==
    IF lines = <<>> THEN <<>>
    ELSE IF Len(lines) = 1 THEN lines[1]
    ELSE lines[1] \o <<"SP">> \o Join(Tail(lines))

-----------------------------------------------------------------------------
(* extract_sql, utils.py 104-129 *)

Fence == <<"BT", "BT", "BT">>
SqlFence == Fence \o <<"sql">>

OccursAt(s, p, i) == i >= 1 /\ i + Len(p) - 1 <= Len(s) /\ SubSeq(s, i, i + Len(p) - 1) = p

\* the pattern compiled without re.DOTALL: '.' stops at a line feed
DotMatchesWithinLine(c) == c # "NL"

\* re.DOTALL: '.' matches every character, the line feed included
DotMatches(c) == TRUE

\* the number of whitespace symbols of s from position i on
RECURSIVE WsRun(_, _)
WsRun(s, i) ==
    IF i <= Len(s) /\ s[i] \in Whitespace THEN 1 + WsRun(s, i + 1) ELSE 0

\* \s*``` matches at position e: some (possibly no) whitespace, then the fence
ClosesAt(s, e) == \E m \in 0..WsRun(s, e) : OccursAt(s, Fence, e + m)

\* (.*?) from position p: the ends e (exclusive) the group can have, each
\* followed by \s*```
GroupEnds(s, p) ==
    {e \in p..(Len(s) + 1) :
        /\ \A j \in p..(e - 1) : DotMatches(s[j])
        /\ ClosesAt(s, e)}

\* the pattern ```sql\s*(.*?)\s*``` tried at position i: the group's
\* <<start, end>> spans, over the lengths k the first \s* may take
SpansAt(s, i) ==
    IF ~OccursAt(s, SqlFence, i) THEN {}
    ELSE UNION {{<<i + Len(SqlFence) + k, e>> :
                    e \in GroupEnds(s, i + Len(SqlFence) + k)} :
                k \in 0..WsRun(s, i + Len(SqlFence))}

\* the span the backtracking matcher settles on at i: the first \s* is greedy
\* (the longest k that lets the rest match), the group is lazy (the nearest end)
SpanAt(s, i) ==
    LET sp == SpansAt(s, i)
        p  == CHOOSE a \in {x[1] : x \in sp} : \A b \in {x[1] : x \in sp} : b <= a
        e  == CHOOSE a \in {x[2] : x \in {y \in sp : y[1] = p}} :
                  \A b \in {x[2] : x \in {y \in sp : y[1] = p}} : a <= b
    IN  <<p, e>>

HasMatch(s) == \E i \in 1..Len(s) : SpansAt(s, i) # {}

\* re.search(...).group(1): the match at the leftmost position that has one
Group1(s) ==
    LET i  == CHOOSE j \in 1..Len(s) :
                 SpansAt(s, j) # {} /\ \A k \in 1..(j - 1) : SpansAt(s, k) = {}
        sp == SpanAt(s, i)
    IN  SubSeq(s, sp[1], sp[2] - 1)

\* line.upper().startswith("SELECT")
IsSelectLine(line) == StartsWith(Upper(line), <<"SELECT">>)

\* a scan that never stops at a terminated statement
EndsStatementNever(line) == FALSE

\* line.endswith(";")
EndsStatement(line) == EndsWith(line, <<";">>)

\* the for loop over the lines, lines 117-123: from line i on, with the
\* loop's in_sql and sql_lines
RECURSIVE ScanLines(_, _, _, _)
ScanLines(lines, i, in_sql, sql_lines) ==
    IF i > Len(lines) THEN sql_lines
    ELSE LET line == Strip(lines[i])
         IN  IF IsSelectLine(line) \/ in_sql
             THEN IF EndsStatement(line)
                  THEN Append(sql_lines, line)
                  ELSE ScanLines(lines, i + 1, TRUE, Append(sql_lines, line))
             ELSE ScanLines(lines, i + 1, in_sql, sql_lines)

\* a last resort that trims the text
LastResortTrimmed(t) == Strip(t)

\* line 129: the whole text
LastResort(t) == t

extract_sql(t) ==
    IF HasMatch(t) THEN Strip(Group1(t))
    ELSE LET sql_lines == ScanLines(Split(t), 1, FALSE, <<>>)
         IN  IF sql_lines # <<>> THEN Join(sql_lines) ELSE LastResort(t)

-----------------------------------------------------------------------------
(* The inputs extract_sql is tried on *)

RECURSIVE SeqsUpTo(_, _)
SeqsUpTo(S, n) ==
    IF n = 0 THEN {<<>>}
    ELSE LET shorter == SeqsUpTo(S, n - 1)
         IN  shorter \cup {Append(s, c) : s \in {t \in shorter : Len(t) = n - 1}, c \in S}

RECURSIVE JoinLines(_)
JoinLines(lines) ==
    IF lines = <<>> THEN <<>>
    ELSE IF Len(lines) = 1 THEN lines[1]
    ELSE lines[1] \o <<"NL">> \o JoinLines(Tail(lines))

\* short texts, and texts made of the lines a generation response has
Inputs ==
    LET SampleLines ==
            { <<>>, <<"x">>, <<"SP", "select", "SP", "x">>, <<"SELECT", ";">>,
              <<"x", ";", "SP">>, <<"BT", "BT", "BT", "sql">>, <<"BT", "BT", "BT">> }
    IN  SeqsUpTo(Sym, MaxLen)
            \cup {JoinLines(ls) : ls \in SeqsUpTo(SampleLines, MaxLines) \ {<<>>}}

\* "```sql\n" + Q + "\n```"
Wrap(s) == SqlFence \o <<"NL">> \o s \o <<"NL">> \o Fence

-----------------------------------------------------------------------------
(* Execution results, utils.py 100 and 102, and compare_results,           *)
(* evaluate.py 16-55                                                       *)

\* the scalars of a row: an integer, a text, each with what str() gives
IntOne == [type |-> "int", repr |-> "1"]
IntTwo == [type |-> "int", repr |-> "2"]
Scalars == {IntOne, [type |-> "text", repr |-> "1"], IntTwo}

\* str(item)
Str(item) == item.repr

\* the column_names of the results compared
ColumnLists == {<<>>, <<"a">>, <<"b">>, <<"a", "b">>}

Rows(n) == IF n = 0 THEN {<<>>} ELSE [1..n -> Scalars]

\* {"results": results, "column_names": column_names}: a statement without
\* columns has no rows; every row is as wide as column_names
ResultVariants(maxRows) ==
    UNION {[results : IF cols = <<>> THEN {<<>>} ELSE SeqsUpTo(Rows(Len(cols)), maxRows),
            column_names : {cols}] : cols \in ColumnLists}

\* {"error": str(e)}
ErrorVariant(msg) == [error |-> msg]

IsError(r) == "error" \in DOMAIN r

\* .get("column_names", []) and .get("results", [])
GetColumnNames(r) == IF "column_names" \in DOMAIN r THEN r.column_names ELSE <<>>
GetResults(r) == IF "results" \in DOMAIN r THEN r.results ELSE <<>>

Range(f) == {f[i] : i \in DOMAIN f}

\* lines 34-38: flat.update(str(item) for item in row), row after row
RECURSIVE Flatten(_, _)
Flatten(data, flat) ==
    IF data = <<>> THEN flat
    ELSE Flatten(Tail(data), flat \cup {Str(Head(data)[i]) : i \in DOMAIN Head(data)})

\* a comparison that only asks whether the gold values are all predicted
SubsetOfPredicted(gold_flat, pred_flat) == gold_flat \subseteq pred_flat

\* a comparison that wants values on both sides
EitherSubsetOfValues(gold_flat, pred_flat) ==
    /\ gold_flat # {}
    /\ pred_flat # {}
    /\ (gold_flat \subseteq pred_flat \/ pred_flat \subseteq gold_flat)

\* line 41
EitherSubset(gold_flat, pred_flat) ==
    gold_flat \subseteq pred_flat \/ pred_flat \subseteq gold_flat

\* a comparison that compares the rows in the order fetched
compare_results_in_order(gold, pred) ==
    IF IsError(gold) \/ IsError(pred) THEN FALSE
    ELSE IF Len(GetColumnNames(gold)) # Len(GetColumnNames(pred))
    THEN EitherSubset(Flatten(GetResults(gold), {}), Flatten(GetResults(pred), {}))
    ELSE IF Range(GetColumnNames(gold)) = Range(GetColumnNames(pred))
    THEN GetResults(gold) = GetResults(pred)
    ELSE GetResults(gold) = GetResults(pred) \/ Len(GetResults(gold)) = Len(GetResults(pred))

\* a comparison without the test of line 19
compare_results_unchecked(gold, pred) ==
    LET gold_cols == GetColumnNames(gold)
        pred_cols == GetColumnNames(pred)
        gold_set  == Range(GetResults(gold))
        pred_set  == Range(GetResults(pred))
    IN  IF Len(gold_cols) # Len(pred_cols)
        THEN EitherSubset(Flatten(GetResults(gold), {}), Flatten(GetResults(pred), {}))
        ELSE IF Range(gold_cols) = Range(pred_cols) THEN gold_set = pred_set
        ELSE gold_set = pred_set \/ Cardinality(gold_set) = Cardinality(pred_set)

compare_results(gold, pred) ==
    IF IsError(gold) \/ IsError(pred) THEN FALSE
    ELSE LET gold_cols == GetColumnNames(gold)
             pred_cols == GetColumnNames(pred)
             gold_data == GetResults(gold)
             pred_data == GetResults(pred)
         IN  IF Len(gold_cols) # Len(pred_cols)
             THEN EitherSubset(Flatten(gold_data, {}), Flatten(pred_data, {}))
             ELSE LET col_match == Range(gold_cols) = Range(pred_cols)
                      gold_set  == Range(gold_data)
                      pred_set  == Range(pred_data)
                  IN  IF col_match THEN gold_set = pred_set
                      ELSE gold_set = pred_set
                               \/ Cardinality(gold_set) = Cardinality(pred_set)

-----------------------------------------------------------------------------
(* The database calls: load_schema, utils.py 6-50, and execute_query,      *)
(* utils.py 88-102.  Where a sqlite3 call fails is the environment's       *)
(* choice.                                                                 *)

\* the call of execute_query that raises, if any
ExecFaults == {"none", "connect", "execute", "fetchall"}

\* the call of load_schema that raises, if any
SchemaFaults == {"none", "connect", "execute"}

\* str(e) of the exception a failing sqlite3 call raises
Message(fault) ==
    CASE fault = "connect"  -> "unable to open database file"
      [] fault = "execute"  -> "no such table: t"
      [] fault = "fetchall" -> "database is locked"
      [] OTHER              -> ""

\* an execute_query whose connect is made before the try
execute_query_connect_unguarded(query, fault, rows) ==
    IF fault = "none"
    THEN [kind |-> "return", value |-> rows, left_open |-> FALSE]
    ELSE IF fault = "connect"
    THEN [kind |-> "raise", value |-> ErrorVariant(Message(fault)), left_open |-> FALSE]
    ELSE [kind |-> "return", value |-> ErrorVariant(Message(fault)), left_open |-> TRUE]

\* execute_query(db_path, query), when the sqlite3 call `fault` raises and a
\* statement that runs gives `rows`: how the call ends (it returns, or an
\* exception leaves it), with what, and whether its connection was left
\* without conn.close()
execute_query(query, fault, rows) ==
    IF fault = "none"
    THEN [kind |-> "return", value |-> rows, left_open |-> FALSE]
    ELSE [kind |-> "return", value |-> ErrorVariant(Message(fault)),
          left_open |-> fault # "connect"]

\* load_schema(db_path): no try; conn.close() is its last statement
load_schema(fault) ==
    IF fault = "none"
    THEN [kind |-> "return", value |-> "schema", left_open |-> FALSE]
    ELSE [kind |-> "raise", value |-> Message(fault), left_open |-> fault # "connect"]

\* what a statement that runs returns: the empty statement has no columns
\* and no rows
NoColumns == [results |-> <<>>, column_names |-> <<>>]
RowOne == [results |-> <<<<IntOne>>>>, column_names |-> <<"a">>]
RowTwo == [results |-> <<<<IntTwo>>>>, column_names |-> <<"a">>]
Fetched(query) == IF query = <<>> THEN {NoColumns} ELSE {RowOne, RowTwo}

\* how the database may treat a statement: a sqlite3 call fails, or the
\* statement runs and gives rows
DbOutcomes(query) ==
    {[fault |-> f, rows |-> NoColumns] : f \in ExecFaults \ {"none"}}
        \cup {[fault |-> "none", rows |-> r] : r \in Fetched(query)}

\* the database "steady" is always readable, and on it the gold query of the
\* benchmark gives one known row; the database "db" is any database
SteadyFetched(query) ==
    IF query = <<>> THEN {NoColumns}
    ELSE IF query = <<"SELECT", "SP", "x", "SP", "x">> THEN {RowOne}
    ELSE {RowOne, RowTwo}

DbOutcomesOn(db_id, query) ==
    IF db_id = "steady"
    THEN {[fault |-> "none", rows |-> r] : r \in SteadyFetched(query)}
    ELSE DbOutcomes(query)

-----------------------------------------------------------------------------
(* The generation backend: user_proxy.initiate_chat(agent, message) and    *)
(* agent.last_message["content"]                                           *)

SelectX == <<"SELECT", "SP", "x">>

\* the texts a role answers with: nothing, or prose and a fenced query
Responses == {<<>>, <<"x", "NL">> \o Wrap(SelectX)}

\* a response, or the call raised and there is none
Replies ==
    {[ok |-> TRUE, content |-> r] : r \in Responses}
        \cup {[ok |-> FALSE, content |-> <<>>]}

NoException == [origin |-> "none", message |-> ""]
Exception(origin, message) == [origin |-> origin, message |-> message]

-----------------------------------------------------------------------------
(* The benchmark, the files, and the state outside any call *)

Unassigned == [unassigned |-> TRUE]
NoFile == [missing |-> TRUE]

\* f"interim_{output_file}" and output_file
InterimFile == "interim_evaluation_results.json"
OutputFile == "evaluation_results.json"

\* the checkpoint period of evaluate.py 125
CheckpointEvery == 5

GoldQuery == <<"SELECT", "SP", "x", "SP", "x">>

\* a benchmark: item.get("evidence", "") is "" for an item without evidence
FullBenchmark(n) ==
    [i \in 1..n |-> [question |-> i, db_id |-> "db", SQL |-> GoldQuery,
                     evidence |-> IF i % 2 = 0 THEN "evidence" ELSE ""]]

\* a benchmark on the database "steady"
SteadyBenchmark(n) ==
    [i \in 1..n |-> [question |-> i, db_id |-> "steady", SQL |-> GoldQuery, evidence |-> ""]]

SampleSizes == {[given |-> FALSE, n |-> 0]} \cup {[given |-> TRUE, n |-> k] : k \in 0..MaxQuestions}

\* the item of the iteration under way
Item == benchmark_data[idx + 1]

IdleBatch ==
    /\ benchmark_data = <<>>
    /\ sample_size = [given |-> FALSE, n |-> 0]
    /\ results = Unassigned
    /\ idx = 0
    /\ bpc = "idle"
    /\ files = [f \in {InterimFile, OutputFile} |-> NoFile]
    /\ pred_results = Unassigned
    /\ gold_results = Unassigned

\* no call of process_text_to_sql under way: its locals do not exist
IdlePipeline ==
    /\ request = Unassigned
    /\ ppc = "idle"
    /\ calls = <<>>
    /\ execs = <<>>
    /\ selector_output = Unassigned
    /\ initial_sql = Unassigned
    /\ final_sql = Unassigned
    /\ ret = Unassigned

IdleRuntime ==
    /\ refcounting = TRUE
    /\ unclosed = {}
    /\ raised = NoException

IdleAnalyze ==
    /\ loaded = Unassigned
    /\ analysis = Unassigned
    /\ apc = "idle"

IdleSchema ==
    /\ database = <<>>
    /\ schema = Unassigned
    /\ spc = "idle"

IdleMain ==
    /\ args = Unassigned
    /\ world = Unassigned
    /\ mpc = "idle"
    /\ trace = <<>>

IdleOptimize ==
    /\ results_file = NoFile
    /\ selected = Unassigned
    /\ enhanced = NoFile
    /\ opc = "idle"

-----------------------------------------------------------------------------
(* extract_sql as a state machine: one call on q, or on q in a sql fence *)

IdleExtract ==
    /\ q = <<>>
    /\ text = <<>>
    /\ extracted = <<>>
    /\ epc = "idle"

IdleCompare ==
    /\ cmp_gold = ErrorVariant("")
    /\ cmp_pred = ErrorVariant("")
    /\ cmp = FALSE
    /\ cmpSwapped = FALSE
    /\ cpc = "idle"

InitExtract ==
    /\ q \in Inputs
    /\ text = <<>>
    /\ extracted = <<>>
    /\ epc = "input"
    /\ IdleCompare
    /\ IdleBatch
    /\ IdlePipeline
    /\ IdleRuntime
    /\ IdleAnalyze
    /\ IdleSchema
    /\ IdleMain
    /\ IdleOptimize

ExtractPlain ==
    /\ epc = "input"
    /\ text' = q
    /\ extracted' = extract_sql(q)
    /\ epc' = "plain"
    /\ UNCHANGED <<q, vCompare, vBatch, vPipeline, vRuntime>>
    /\ UNCHANGED <<vAnalyze, vSchema, vMain, vOptimize>>

ExtractFenced ==
    /\ epc = "input"
    /\ text' = Wrap(q)
    /\ extracted' = extract_sql(Wrap(q))
    /\ epc' = "fenced"
    /\ UNCHANGED <<q, vCompare, vBatch, vPipeline, vRuntime>>
    /\ UNCHANGED <<vAnalyze, vSchema, vMain, vOptimize>>

NextExtract == ExtractPlain \/ ExtractFenced

SpecExtract == InitExtract /\ [][NextExtract]_vars

-----------------------------------------------------------------------------
(* compare_results as a state machine: one pair of results, compared in    *)
(* the order given and then in the other order                             *)

CompareInputs == ResultVariants(MaxRows) \cup {ErrorVariant("no such table: t")}

InitCompare ==
    /\ cmp_gold \in CompareInputs
    /\ cmp_pred \in CompareInputs
    /\ cmp = FALSE
    /\ cmpSwapped = FALSE
    /\ cpc = "input"
    /\ IdleExtract
    /\ IdleBatch
    /\ IdlePipeline
    /\ IdleRuntime
    /\ IdleAnalyze
    /\ IdleSchema
    /\ IdleMain
    /\ IdleOptimize

Compare ==
    /\ cpc = "input"
    /\ cmp' = compare_results(cmp_gold, cmp_pred)
    /\ cpc' = "compared"
    /\ UNCHANGED <<cmp_gold, cmp_pred, cmpSwapped, vExtract, vBatch, vPipeline, vRuntime>>
    /\ UNCHANGED <<vAnalyze, vSchema, vMain, vOptimize>>

CompareSwapped ==
    /\ cpc = "compared"
    /\ cmpSwapped' = compare_results(cmp_pred, cmp_gold)
    /\ cpc' = "both"
    /\ UNCHANGED <<cmp_gold, cmp_pred, cmp, vExtract, vBatch, vPipeline, vRuntime>>
    /\ UNCHANGED <<vAnalyze, vSchema, vMain, vOptimize>>

NextCompare == Compare \/ CompareSwapped

SpecCompare == InitCompare /\ [][NextCompare]_vars

-----------------------------------------------------------------------------
(* process_text_to_sql, agent_system.py 147-217, called by                 *)
(* evaluate_on_benchmark, evaluate.py 57-151                               *)

\* the message of each call, by the parts its f-string puts together
SelectorInput ==
    [question |-> request.question, evidence_text |-> request.evidence,
     formatted_schema |-> "schema"]
DecomposerInput ==
    [question |-> request.question, evidence_text |-> request.evidence,
     selector_output |-> selector_output]
RefinerInput(sql) ==
    [question |-> request.question, evidence_text |-> request.evidence,
     formatted_schema |-> "schema", initial_sql |-> sql]
\* a repair request that quotes the Decomposer's query
FixInputQuotingInitial(result) ==
    [error |-> result.error, question |-> request.question,
     evidence_text |-> request.evidence, formatted_schema |-> "schema",
     failed_sql |-> initial_sql]

FixInput(result) ==
    [error |-> result.error, question |-> request.question,
     evidence_text |-> request.evidence, formatted_schema |-> "schema",
     failed_sql |-> final_sql]

\* an exception nothing catches: process_text_to_sql has no try around its
\* stages, and evaluate_on_benchmark calls it (line 82) before its try
Uncaught(origin, message) ==
    /\ ppc' = "raised"
    /\ raised' = Exception(origin, message)
    /\ bpc' = IF bpc = "loop" THEN "aborted" ELSE bpc

\* a connection execute_query left without close() stays open until the
\* runtime frees the object: at once when it counts references
AfterExecute(outcome) ==
    IF outcome.left_open /\ ~refcounting THEN unclosed \cup {"execute_query"} ELSE unclosed

\* lines 150-157: create_agents, load_schema, format_schema
LoadSchema ==
    /\ ppc = "load_schema"
    /\ \E fault \in SchemaFaults :
          LET o == load_schema(fault)
          IN  /\ unclosed' = IF o.left_open THEN unclosed \cup {"load_schema"} ELSE unclosed
              /\ IF o.kind = "raise"
                 THEN Uncaught("load_schema", o.value)
                 ELSE ppc' = "selector" /\ UNCHANGED <<raised, bpc>>
    /\ UNCHANGED <<request, calls, execs, selector_output, initial_sql, final_sql, ret>>
    /\ UNCHANGED <<benchmark_data, sample_size, results, idx, files, pred_results, gold_results>>
    /\ UNCHANGED <<refcounting, vExtract, vCompare>>
    /\ UNCHANGED <<vAnalyze, vSchema, vMain, vOptimize>>

\* lines 160-168
RunSelector ==
    /\ ppc = "selector"
    /\ \E reply \in Replies :
          /\ calls' = Append(calls, [role |-> "Selector", message |-> SelectorInput,
                                     reply |-> reply])
          /\ IF reply.ok
             THEN /\ selector_output' = reply.content
                  /\ ppc' = "decomposer"
                  /\ UNCHANGED <<raised, bpc>>
             ELSE /\ Uncaught("Selector", "backend unavailable")
                  /\ UNCHANGED selector_output
    /\ UNCHANGED <<request, execs, initial_sql, final_sql, ret>>
    /\ UNCHANGED <<benchmark_data, sample_size, results, idx, files, pred_results, gold_results>>
    /\ UNCHANGED <<refcounting, unclosed, vExtract, vCompare>>
    /\ UNCHANGED <<vAnalyze, vSchema, vMain, vOptimize>>

\* a Decomposer step that returns at once when it extracted nothing
RunDecomposerEarlyExit ==
    /\ ppc = "decomposer"
    /\ \E reply \in Replies :
          /\ calls' = Append(calls, [role |-> "Decomposer", message |-> DecomposerInput,
                                     reply |-> reply])
          /\ IF reply.ok
             THEN /\ initial_sql' = extract_sql(reply.content)
                  /\ IF initial_sql' = <<>>
                     THEN ppc' = "returned" /\ ret' = initial_sql'
                     ELSE ppc' = "refiner" /\ UNCHANGED ret
                  /\ UNCHANGED <<raised, bpc>>
             ELSE /\ Uncaught("Decomposer", "backend unavailable")
                  /\ UNCHANGED <<initial_sql, ret>>
    /\ UNCHANGED <<request, execs, selector_output, final_sql>>
    /\ UNCHANGED <<benchmark_data, sample_size, results, idx, files, pred_results, gold_results>>
    /\ UNCHANGED <<refcounting, unclosed, vExtract, vCompare>>
    /\ UNCHANGED <<vAnalyze, vSchema, vMain, vOptimize>>

\* lines 171-180
RunDecomposer ==
    /\ ppc = "decomposer"
    /\ \E reply \in Replies :
          /\ calls' = Append(calls, [role |-> "Decomposer", message |-> DecomposerInput,
                                     reply |-> reply])
          /\ IF reply.ok
             THEN /\ initial_sql' = extract_sql(reply.content)
                  /\ ppc' = "refiner"
                  /\ UNCHANGED <<raised, bpc>>
             ELSE /\ Uncaught("Decomposer", "backend unavailable")
                  /\ UNCHANGED initial_sql
    /\ UNCHANGED <<request, execs, selector_output, final_sql, ret>>
    /\ UNCHANGED <<benchmark_data, sample_size, results, idx, files, pred_results, gold_results>>
    /\ UNCHANGED <<refcounting, unclosed, vExtract, vCompare>>
    /\ UNCHANGED <<vAnalyze, vSchema, vMain, vOptimize>>

\* lines 183-192
RunRefiner ==
    /\ ppc = "refiner"
    /\ \E reply \in Replies :
          /\ calls' = Append(calls, [role |-> "Refiner", message |-> RefinerInput(initial_sql),
                                     reply |-> reply])
          /\ IF reply.ok
             THEN /\ final_sql' = extract_sql(reply.content)
                  /\ ppc' = "execute"
                  /\ UNCHANGED <<raised, bpc>>
             ELSE /\ Uncaught("Refiner", "backend unavailable")
                  /\ UNCHANGED final_sql
    /\ UNCHANGED <<request, execs, selector_output, initial_sql, ret>>
    /\ UNCHANGED <<benchmark_data, sample_size, results, idx, files, pred_results, gold_results>>
    /\ UNCHANGED <<refcounting, unclosed, vExtract, vCompare>>
    /\ UNCHANGED <<vAnalyze, vSchema, vMain, vOptimize>>

\* lines 195-197, and 214-217 when the query ran: the first execution
ExecuteFinal ==
    /\ ppc = "execute"
    /\ \E db \in DbOutcomes(final_sql) :
          LET o == execute_query(final_sql, db.fault, db.rows)
          IN  /\ execs' = Append(execs, [query |-> final_sql, fault |-> db.fault, outcome |-> o])
              /\ unclosed' = AfterExecute(o)
              /\ IF o.kind = "return" /\ IsError(o.value)
                 THEN ppc' = "fix" /\ UNCHANGED ret
                 ELSE ppc' = "returned" /\ ret' = final_sql
    /\ UNCHANGED <<request, calls, selector_output, initial_sql, final_sql>>
    /\ UNCHANGED vBatch
    /\ UNCHANGED <<refcounting, raised, vExtract, vCompare>>
    /\ UNCHANGED <<vAnalyze, vSchema, vMain, vOptimize>>

\* a repair request made outside the try
FixQueryUnguarded ==
    /\ ppc = "fix"
    /\ \E reply \in Replies :
          /\ calls' = Append(calls, [role |-> "Refiner",
                                     message |-> FixInput(execs[Len(execs)].outcome.value),
                                     reply |-> reply])
          /\ IF reply.ok
             THEN /\ final_sql' = extract_sql(reply.content)
                  /\ ppc' = "verify"
                  /\ UNCHANGED <<raised, bpc>>
             ELSE /\ Uncaught("Refiner", "backend unavailable")
                  /\ UNCHANGED final_sql
    /\ UNCHANGED <<request, execs, selector_output, initial_sql, ret>>
    /\ UNCHANGED <<benchmark_data, sample_size, results, idx, files, pred_results, gold_results>>
    /\ UNCHANGED <<refcounting, unclosed, vExtract, vCompare>>
    /\ UNCHANGED <<vAnalyze, vSchema, vMain, vOptimize>>

\* lines 198-208, and 214-217 when the call raises: the repair request
FixQuery ==
    /\ ppc = "fix"
    /\ \E reply \in Replies :
          /\ calls' = Append(calls, [role |-> "Refiner",
                                     message |-> FixInput(execs[Len(execs)].outcome.value),
                                     reply |-> reply])
          /\ IF reply.ok
             THEN /\ final_sql' = extract_sql(reply.content)
                  /\ ppc' = "verify"
                  /\ UNCHANGED ret
             ELSE /\ ppc' = "returned"
                  /\ ret' = final_sql
                  /\ UNCHANGED final_sql
    /\ UNCHANGED <<request, execs, selector_output, initial_sql>>
    /\ UNCHANGED vBatch
    /\ UNCHANGED <<vRuntime, vExtract, vCompare>>
    /\ UNCHANGED <<vAnalyze, vSchema, vMain, vOptimize>>

\* a verification that asks for another repair while the query fails
VerifyFixRetrying ==
    /\ ppc = "verify"
    /\ \E db \in DbOutcomes(final_sql) :
          LET o == execute_query(final_sql, db.fault, db.rows)
          IN  /\ execs' = Append(execs, [query |-> final_sql, fault |-> db.fault, outcome |-> o])
              /\ unclosed' = AfterExecute(o)
              /\ IF IsError(o.value) /\ Len(execs) < 3
                 THEN ppc' = "fix" /\ UNCHANGED ret
                 ELSE ppc' = "returned" /\ ret' = final_sql
    /\ UNCHANGED <<request, calls, selector_output, initial_sql, final_sql>>
    /\ UNCHANGED vBatch
    /\ UNCHANGED <<refcounting, raised, vExtract, vCompare>>
    /\ UNCHANGED <<vAnalyze, vSchema, vMain, vOptimize>>

\* lines 210-217: the repaired query is executed and returned
VerifyFix ==
    /\ ppc = "verify"
    /\ \E db \in DbOutcomes(final_sql) :
          LET o == execute_query(final_sql, db.fault, db.rows)
          IN  /\ execs' = Append(execs, [query |-> final_sql, fault |-> db.fault, outcome |-> o])
              /\ unclosed' = AfterExecute(o)
    /\ ppc' = "returned"
    /\ ret' = final_sql
    /\ UNCHANGED <<request, calls, selector_output, initial_sql, final_sql>>
    /\ UNCHANGED vBatch
    /\ UNCHANGED <<refcounting, raised, vExtract, vCompare>>
    /\ UNCHANGED <<vAnalyze, vSchema, vMain, vOptimize>>

-----------------------------------------------------------------------------
(* One call of process_text_to_sql, as run_single_query makes it,          *)
(* main.py 43                                                              *)

InitRun ==
    /\ request \in {[question |-> 1, db_id |-> "db", evidence |-> e] : e \in {"", "evidence"}}
    /\ ppc = "load_schema"
    /\ calls = <<>>
    /\ execs = <<>>
    /\ selector_output = Unassigned
    /\ initial_sql = Unassigned
    /\ final_sql = Unassigned
    /\ ret = Unassigned
    /\ refcounting \in BOOLEAN
    /\ unclosed = {}
    /\ raised = NoException
    /\ IdleBatch
    /\ IdleExtract
    /\ IdleCompare
    /\ IdleAnalyze
    /\ IdleSchema
    /\ IdleMain
    /\ IdleOptimize

NextRun ==
    \/ LoadSchema
    \/ RunSelector
    \/ RunDecomposer
    \/ RunRefiner
    \/ ExecuteFinal
    \/ FixQuery
    \/ VerifyFix

SpecRun == InitRun /\ [][NextRun]_vars

-----------------------------------------------------------------------------
(* evaluate_on_benchmark, evaluate.py 57-151 *)

Min(a, b) == IF a <= b THEN a ELSE b

InitBatch ==
    /\ benchmark_data \in {FullBenchmark(n) : n \in 0..MaxQuestions}
    /\ sample_size \in SampleSizes
    /\ results = Unassigned
    /\ idx = 0
    /\ bpc = "start"
    /\ files = [f \in {InterimFile, OutputFile} |-> NoFile]
    /\ pred_results = Unassigned
    /\ gold_results = Unassigned
    /\ IdlePipeline
    /\ refcounting \in BOOLEAN
    /\ unclosed = {}
    /\ raised = NoException
    /\ IdleExtract
    /\ IdleCompare
    /\ IdleAnalyze
    /\ IdleSchema
    /\ IdleMain
    /\ IdleOptimize

\* a total taken before the sample is cut
SelectSampleTotalBefore ==
    /\ bpc = "start"
    /\ benchmark_data' =
          IF sample_size.given /\ sample_size.n # 0 /\ sample_size.n > 0
          THEN SubSeq(benchmark_data, 1, Min(sample_size.n, Len(benchmark_data)))
          ELSE benchmark_data
    /\ results' = [correct |-> 0, total |-> Len(benchmark_data), details |-> <<>>]
    /\ bpc' = "loop"
    /\ UNCHANGED <<sample_size, idx, files, pred_results, gold_results>>
    /\ UNCHANGED <<vPipeline, vRuntime, vExtract, vCompare>>
    /\ UNCHANGED <<vAnalyze, vSchema, vMain, vOptimize>>

\* lines 59-68
SelectSample ==
    /\ bpc = "start"
    /\ benchmark_data' =
          IF sample_size.given /\ sample_size.n # 0 /\ sample_size.n > 0
          THEN SubSeq(benchmark_data, 1, Min(sample_size.n, Len(benchmark_data)))
          ELSE benchmark_data
    /\ results' = [correct |-> 0, total |-> Len(benchmark_data'), details |-> <<>>]
    /\ bpc' = "loop"
    /\ UNCHANGED <<sample_size, idx, files, pred_results, gold_results>>
    /\ UNCHANGED <<vPipeline, vRuntime, vExtract, vCompare>>
    /\ UNCHANGED <<vAnalyze, vSchema, vMain, vOptimize>>

\* lines 71-82: the next item, and the call of process_text_to_sql
NextQuestion ==
    /\ bpc = "loop"
    /\ ppc = "idle"
    /\ idx < Len(benchmark_data)
    /\ request' = [question |-> Item.question, db_id |-> Item.db_id,
                   evidence |-> Item.evidence]
    /\ ppc' = "load_schema"
    /\ UNCHANGED <<calls, execs, selector_output, initial_sql, final_sql, ret>>
    /\ UNCHANGED <<vBatch, vRuntime, vExtract, vCompare>>
    /\ UNCHANGED <<vAnalyze, vSchema, vMain, vOptimize>>

\* the record of lines 95-103
Record(item, predicted_sql, is_correct, gold, pred) ==
    [question |-> item.question, db_id |-> item.db_id, gold_query |-> item.SQL,
     predicted_query |-> predicted_sql, is_correct |-> is_correct,
     gold_results |-> GetResults(gold), pred_results |-> GetResults(pred)]

\* the record of lines 115-122
ErrorRecord(item, predicted_sql, message) ==
    [question |-> item.question, db_id |-> item.db_id, gold_query |-> item.SQL,
     predicted_query |-> predicted_sql, is_correct |-> FALSE, error |-> message]

\* a checkpoint on every fifth question only
CheckpointDueEveryFifth == (idx + 1) % CheckpointEvery = 0

\* line 125
CheckpointDue == (idx + 1) % CheckpointEvery = 0 \/ idx + 1 = Len(benchmark_data)

\* lines 83-130: both queries are executed and compared, the record is
\* appended, the checkpoint written; process_text_to_sql's locals are gone
EvaluateQuestion ==
    /\ bpc = "loop"
    /\ ppc = "returned"
    /\ \E pdb \in DbOutcomesOn(Item.db_id, ret), gdb \in DbOutcomesOn(Item.db_id, Item.SQL) :
          LET po == execute_query(ret, pdb.fault, pdb.rows)
              go == execute_query(Item.SQL, gdb.fault, gdb.rows)
              failed == po.kind = "raise" \/ go.kind = "raise"
              is_correct == compare_results(go.value, po.value)
              record == IF failed
                        THEN ErrorRecord(Item, ret,
                                 IF po.kind = "raise" THEN po.value.error ELSE go.value.error)
                        ELSE Record(Item, ret, is_correct, go.value, po.value)
          IN  /\ pred_results' = IF po.kind = "raise" THEN pred_results ELSE po.value
              /\ gold_results' = IF failed THEN gold_results ELSE go.value
              /\ results' = [results EXCEPT
                                !.details = Append(@, record),
                                !.correct = IF ~failed /\ is_correct THEN @ + 1 ELSE @]
              /\ unclosed' =
                    IF ~refcounting /\ (po.left_open \/ (po.kind = "return" /\ go.left_open))
                    THEN unclosed \cup {"execute_query"} ELSE unclosed
    /\ files' = IF CheckpointDue THEN [files EXCEPT ![InterimFile] = results'] ELSE files
    /\ idx' = idx + 1
    /\ request' = Unassigned
    /\ ppc' = "idle"
    /\ calls' = <<>>
    /\ execs' = <<>>
    /\ selector_output' = Unassigned
    /\ initial_sql' = Unassigned
    /\ final_sql' = Unassigned
    /\ ret' = Unassigned
    /\ UNCHANGED <<benchmark_data, sample_size, bpc>>
    /\ UNCHANGED <<refcounting, raised, vExtract, vCompare>>
    /\ UNCHANGED <<vAnalyze, vSchema, vMain, vOptimize>>

\* an end of run that takes the accuracy of no question to be 0
FinishZeroGuarded ==
    /\ bpc = "loop"
    /\ ppc = "idle"
    /\ idx = Len(benchmark_data)
    /\ results' = [correct |-> results.correct, total |-> results.total,
                   details |-> results.details,
                   accuracy |-> IF results.total = 0 THEN <<0, 1>>
                                ELSE <<100 * results.correct, results.total>>]
    /\ files' = [files EXCEPT ![OutputFile] = results']
    /\ bpc' = "done"
    /\ UNCHANGED raised
    /\ UNCHANGED <<benchmark_data, sample_size, idx, pred_results, gold_results>>
    /\ UNCHANGED <<vPipeline, refcounting, unclosed, vExtract, vCompare>>
    /\ UNCHANGED <<vAnalyze, vSchema, vMain, vOptimize>>

\* lines 132-151: the accuracy (kept as the fraction 100 * correct / total)
\* and the final results file
Finish ==
    /\ bpc = "loop"
    /\ ppc = "idle"
    /\ idx = Len(benchmark_data)
    /\ IF results.total = 0
       THEN /\ raised' = Exception("accuracy", "division by zero")
            /\ bpc' = "aborted"
            /\ UNCHANGED <<results, files>>
       ELSE /\ results' = [correct |-> results.correct, total |-> results.total,
                           details |-> results.details,
                           accuracy |-> <<100 * results.correct, results.total>>]
            /\ files' = [files EXCEPT ![OutputFile] = results']
            /\ bpc' = "done"
            /\ UNCHANGED raised
    /\ UNCHANGED <<benchmark_data, sample_size, idx, pred_results, gold_results>>
    /\ UNCHANGED <<vPipeline, refcounting, unclosed, vExtract, vCompare>>
    /\ UNCHANGED <<vAnalyze, vSchema, vMain, vOptimize>>

Next ==
    \/ SelectSample
    \/ NextQuestion
    \/ LoadSchema
    \/ RunSelector
    \/ RunDecomposer
    \/ RunRefiner
    \/ ExecuteFinal
    \/ FixQuery
    \/ VerifyFix
    \/ EvaluateQuestion
    \/ Finish

Spec == InitBatch /\ [][Next]_vars

-----------------------------------------------------------------------------
(* evaluate_on_benchmark with the call of process_text_to_sql, line 82, as *)
(* one step: what the call returns or raises and the connections it leaves *)
(* open, without its locals                                                *)

\* the ways a call of process_text_to_sql returns
ProcessReturns(db_id) ==
    {[value |-> extract_sql(r), left |-> l] :
        r \in Responses,
        l \in IF db_id = "steady" \/ refcounting THEN {{}} ELSE {{}, {"execute_query"}}}

\* the ways an exception leaves it: from load_schema, or from one of the
\* three stages, all before any execution
ProcessRaises(db_id) ==
    {[origin |-> role, message |-> "backend unavailable", left |-> {}] :
        role \in {"Selector", "Decomposer", "Refiner"}}
    \cup IF db_id = "steady" THEN {}
         ELSE {[origin |-> "load_schema", message |-> load_schema(f).value,
                left |-> IF load_schema(f).left_open THEN {"load_schema"} ELSE {}] :
                  f \in SchemaFaults \ {"none"}}

\* line 82
ProcessQuestion ==
    /\ bpc = "loop"
    /\ ppc = "load_schema"
    /\ \/ \E o \in ProcessReturns(request.db_id) :
             /\ ret' = o.value
             /\ unclosed' = unclosed \cup o.left
             /\ ppc' = "returned"
             /\ UNCHANGED <<raised, bpc>>
       \/ \E o \in ProcessRaises(request.db_id) :
             /\ Uncaught(o.origin, o.message)
             /\ unclosed' = unclosed \cup o.left
             /\ UNCHANGED ret
    /\ UNCHANGED <<request, calls, execs, selector_output, initial_sql, final_sql>>
    /\ UNCHANGED <<benchmark_data, sample_size, results, idx, files, pred_results, gold_results>>
    /\ UNCHANGED <<refcounting, vExtract, vCompare>>
    /\ UNCHANGED <<vAnalyze, vSchema, vMain, vOptimize>>

\* the benchmarks: short ones on any database, and ones on the steady
\* database long enough for a checkpoint before the last question
Benchmarks ==
    {FullBenchmark(n) : n \in 0..MaxQuestions}
        \cup {SteadyBenchmark(n) : n \in (MaxSteady - 1)..MaxSteady}

InitEvaluate ==
    /\ benchmark_data \in Benchmarks
    /\ sample_size \in SampleSizes \cup {[given |-> TRUE, n |-> CheckpointEvery]}
    /\ results = Unassigned
    /\ idx = 0
    /\ bpc = "start"
    /\ files = [f \in {InterimFile, OutputFile} |-> NoFile]
    /\ pred_results = Unassigned
    /\ gold_results = Unassigned
    /\ IdlePipeline
    /\ refcounting \in BOOLEAN
    /\ unclosed = {}
    /\ raised = NoException
    /\ IdleExtract
    /\ IdleCompare
    /\ IdleAnalyze
    /\ IdleSchema
    /\ IdleMain
    /\ IdleOptimize

NextEvaluate ==
    \/ SelectSample
    \/ NextQuestion
    \/ ProcessQuestion
    \/ EvaluateQuestion
    \/ Finish

SpecEvaluate == InitEvaluate /\ [][NextEvaluate]_vars

-----------------------------------------------------------------------------
(* analyze_errors, evaluate.py 153-220.  A query is a sequence of symbols:  *)
(* the keywords the function looks for, in upper or lower case, a blank,   *)
(* a line feed, the name x and the name "joined", which has "join" in it.  *)

\* str.lower()
Lower(s) ==
    LET LowerSym(c) ==
        CASE c = "SELECT"   -> "select"
          [] c = "JOIN"     -> "join"
          [] c = "WHERE"    -> "where"
          [] c = "GROUP"    -> "group"
          [] c = "ORDER"    -> "order"
          [] c = "BY"       -> "by"
          [] c = "STRFTIME" -> "strftime"
          [] c = "IIF"      -> "iif"
          [] OTHER          -> c
    IN  [i \in DOMAIN s |-> LowerSym(s[i])]

\* the letters of keyword symbol k occur in symbol c
SymHas(c, k) == c = k \/ (c = "joined" /\ k = "join")

\* keyword in query: a substring test
In(keyword, query) ==
    \E i \in 1..(Len(query) + 1 - Len(keyword)) :
        \A j \in DOMAIN keyword : SymHas(query[i + j - 1], keyword[j])

\* item.get(key, default)
Get(item, key, default) == IF key \in DOMAIN item THEN item[key] ELSE default

None == [none |-> TRUE]

\* lines 179-196 with the tests for WHERE and JOIN in the other order
error_type_where_first(item) ==
    LET pred_query == Lower(Get(item, "predicted_query", <<>>))
        gold_query == Lower(Get(item, "gold_query", <<>>))
        Missing(keyword) == In(keyword, gold_query) /\ ~In(keyword, pred_query)
    IN  IF "error" \in DOMAIN item THEN "Execution Error"
        ELSE IF pred_query = <<>> THEN "Empty Query"
        ELSE IF Missing(<<"where">>) THEN "Missing WHERE"
        ELSE IF Missing(<<"join">>) THEN "Missing JOIN"
        ELSE IF Missing(<<"group", "SP", "by">>) THEN "Missing GROUP BY"
        ELSE IF Missing(<<"order", "SP", "by">>) THEN "Missing ORDER BY"
        ELSE IF Missing(<<"strftime">>) THEN "Date Format Error"
        ELSE IF Missing(<<"iif">>) THEN "Conditional Logic Error"
        ELSE "Other"

\* lines 172-173 and 179-196
error_type(item) ==
    LET pred_query == Lower(Get(item, "predicted_query", <<>>))
        gold_query == Lower(Get(item, "gold_query", <<>>))
        Missing(keyword) == In(keyword, gold_query) /\ ~In(keyword, pred_query)
    IN  IF "error" \in DOMAIN item THEN "Execution Error"
        ELSE IF pred_query = <<>> THEN "Empty Query"
        ELSE IF Missing(<<"join">>) THEN "Missing JOIN"
        ELSE IF Missing(<<"where">>) THEN "Missing WHERE"
        ELSE IF Missing(<<"group", "SP", "by">>) THEN "Missing GROUP BY"
        ELSE IF Missing(<<"order", "SP", "by">>) THEN "Missing ORDER BY"
        ELSE IF Missing(<<"strftime">>) THEN "Date Format Error"
        ELSE IF Missing(<<"iif">>) THEN "Conditional Logic Error"
        ELSE "Other"

\* line 160
IsIncorrect(item) == ~Get(item, "is_correct", FALSE)

\* d[key] = d.get(key, 0) + 1
Increment(d, key) ==
    [k \in DOMAIN d \cup {key} |->
        IF k = key THEN (IF k \in DOMAIN d THEN d[k] + 1 ELSE 1) ELSE d[k]]

EmptyDict == [k \in {} |-> 0]

\* lines 170-198: the loop over the incorrect records
RECURSIVE Categorize(_, _, _)
Categorize(incorrect, error_types, db_errors) ==
    IF incorrect = <<>> THEN [error_types |-> error_types, db_errors |-> db_errors]
    ELSE LET item == Head(incorrect)
         IN  Categorize(Tail(incorrect),
                        Increment(error_types, error_type(item)),
                        Increment(db_errors, Get(item, "db_id", "unknown")))

\* an analyze_errors that returns two empty dictionaries where there is
\* nothing to count
analyze_errors_always_pair(r) ==
    IF "details" \notin DOMAIN r THEN [error_types |-> EmptyDict, db_errors |-> EmptyDict]
    ELSE Categorize(SelectSeq(r.details, IsIncorrect), EmptyDict, EmptyDict)

\* the value analyze_errors returns: None (lines 157 and 164), or the two
\* dictionaries of line 220
analyze_errors(r) ==
    IF "details" \notin DOMAIN r THEN None
    ELSE LET incorrect == SelectSeq(r.details, IsIncorrect)
         IN  IF incorrect = <<>> THEN None
             ELSE Categorize(incorrect, EmptyDict, EmptyDict)

\* clauses a query may have
ClauseJoin == <<"SP", "JOIN", "SP", "x">>
ClauseGroupBy == <<"SP", "GROUP", "SP", "BY", "SP", "x">>
Clauses ==
    <<ClauseJoin, <<"SP", "WHERE", "SP", "x">>, ClauseGroupBy,
      <<"SP", "ORDER", "SP", "BY", "SP", "x">>, <<"SP", "STRFTIME">>, <<"SP", "IIF">>>>

\* SELECT x followed by the clauses from the k-th on
RECURSIVE ClausesFrom(_)
ClausesFrom(k) == IF k > Len(Clauses) THEN <<>> ELSE Clauses[k] \o ClausesFrom(k + 1)

GoldQueries ==
    {SelectX \o ClausesFrom(k) : k \in 1..(Len(Clauses) + 1)}
        \cup {SelectX \o <<"SP", "GROUP", "NL", "BY", "SP", "x">>}

PredictedQueries ==
    {<<>>, SelectX,
     <<"select", "SP", "x", "SP", "join", "SP", "x">>,
     <<"SELECT", "SP", "joined">>,
     SelectX \o ClauseJoin \o Clauses[2] \o ClauseGroupBy}

\* the records evaluate_on_benchmark writes, lines 95-103 and 115-122
AnalyzeRecords ==
    {[question |-> 1, db_id |-> "db", gold_query |-> g, predicted_query |-> p,
      is_correct |-> FALSE, gold_results |-> <<>>, pred_results |-> <<>>] :
        g \in GoldQueries, p \in PredictedQueries \ {<<>>}}
    \cup {[question |-> 1, db_id |-> "db", gold_query |-> g, predicted_query |-> <<>>,
           is_correct |-> FALSE, gold_results |-> <<>>, pred_results |-> <<>>] :
             g \in {SelectX, SelectX \o ClausesFrom(1)}}
    \cup {[question |-> 1, db_id |-> d, gold_query |-> SelectX \o ClauseJoin,
           predicted_query |-> SelectX, is_correct |-> TRUE,
           gold_results |-> <<>>, pred_results |-> <<>>] : d \in {"db", "db2"}}
    \cup {[question |-> 1, db_id |-> "db2", gold_query |-> SelectX \o ClauseJoin,
           predicted_query |-> p, is_correct |-> FALSE,
           error |-> "unhashable type"] : p \in {<<>>, SelectX}}

CorrectCount(details) == Len(SelectSeq(details, LAMBDA item : item.is_correct))

\* the results a results file holds; one without details
AnalyzeInputs ==
    {[correct |-> CorrectCount(d), total |-> Len(d), details |-> d] :
        d \in SeqsUpTo(AnalyzeRecords, MaxRecords)}
    \cup {[correct |-> 0, total |-> 0]}

InitAnalyze ==
    /\ loaded \in AnalyzeInputs
    /\ analysis = Unassigned
    /\ apc = "input"
    /\ IdleExtract
    /\ IdleCompare
    /\ IdleBatch
    /\ IdlePipeline
    /\ IdleRuntime
    /\ IdleSchema
    /\ IdleMain
    /\ IdleOptimize

Analyze ==
    /\ apc = "input"
    /\ analysis' = analyze_errors(loaded)
    /\ apc' = "analyzed"
    /\ UNCHANGED <<loaded, vExtract, vCompare, vBatch, vPipeline, vRuntime, vSchema, vMain, vOptimize>>

NextAnalyze == Analyze

SpecAnalyze == InitAnalyze /\ [][NextAnalyze]_vars

-----------------------------------------------------------------------------
(* load_schema, utils.py 6-50: the dictionary it builds.  A database is    *)
(* the sequence of its tables as sqlite_master lists them; a table has a   *)
(* name, its columns (name and declared type), its rows and its declared   *)
(* foreign keys.                                                           *)

\* names a table may have: two plain ones, the name of the key load_schema
\* uses for the foreign keys, and a name that is no identifier
TableNames == {"t", "u", "foreign_keys", "my table"}

\* PRAGMA table_info(name) and SELECT * FROM name are statements only when
\* the name put in unquoted is an identifier
IsIdentifier(name) == name # "my table"

\* a table: its columns, its rows, and its rows of PRAGMA foreign_key_list
\* (id, seq, table, from, to and three more)
Tables ==
    {[name |-> n,
      columns |-> [i \in 1..w |-> [name |-> IF i = 1 THEN "id" ELSE "c",
                                   type |-> IF i = 1 THEN "INTEGER" ELSE "TEXT"]],
      rows |-> [i \in 1..c |-> [j \in 1..w |-> i]],
      fks |-> f] :
        n \in TableNames, w \in 1..2, c \in {0, MaxSampleRows + 1},
        f \in {<<>>, <<[ref_table |-> "t", from |-> "id", to |-> "id"]>>}}

Databases ==
    {db \in SeqsUpTo(Tables, MaxTables) :
        \A i, j \in DOMAIN db : i # j => db[i].name # db[j].name}

\* lines 26-30
Descriptor(table) ==
    [columns |-> [i \in DOMAIN table.columns |-> table.columns[i].name],
     types |-> [i \in DOMAIN table.columns |-> table.columns[i].type],
     sample_data |-> SubSeq(table.rows, 1, Min(MaxSampleRows, Len(table.rows)))]

\* lines 33-45
RECURSIVE ForeignKeys(_)
ForeignKeys(tables) ==
    IF tables = <<>> THEN <<>>
    ELSE [i \in DOMAIN Head(tables).fks |->
             [table |-> Head(tables).name, column |-> Head(tables).fks[i].from,
              ref_table |-> Head(tables).fks[i].ref_table,
              ref_column |-> Head(tables).fks[i].to]]
         \o ForeignKeys(Tail(tables))

\* schema[key] = value
Assign(dict, key, value) ==
    [k \in DOMAIN dict \cup {key} |-> IF k = key THEN value ELSE dict[k]]

\* lines 15-30
RECURSIVE Describe(_, _)
Describe(tables, dict) ==
    IF tables = <<>> THEN dict
    ELSE Describe(Tail(tables), Assign(dict, Head(tables).name, Descriptor(Head(tables))))

\* load_schema on a database that opens: the dictionary of line 50, or the
\* exception of a statement sqlite3 cannot parse
load_schema_dict(db) ==
    IF \E i \in DOMAIN db : ~IsIdentifier(db[i].name)
    THEN [kind |-> "raise", value |-> "syntax error"]
    ELSE [kind |-> "return",
          value |-> Assign(Describe(db, [k \in {} |-> 0]), "foreign_keys", ForeignKeys(db))]

InitSchema ==
    /\ database \in Databases
    /\ schema = Unassigned
    /\ spc = "input"
    /\ IdleExtract
    /\ IdleCompare
    /\ IdleBatch
    /\ IdlePipeline
    /\ IdleRuntime
    /\ IdleAnalyze
    /\ IdleMain
    /\ IdleOptimize

ReadSchema ==
    /\ spc = "input"
    /\ LET o == load_schema_dict(database)
       IN  IF o.kind = "raise"
           THEN /\ spc' = "raised"
                /\ raised' = Exception("load_schema", o.value)
                /\ UNCHANGED schema
           ELSE /\ spc' = "loaded"
                /\ schema' = o.value
                /\ UNCHANGED raised
    /\ UNCHANGED <<database, refcounting, unclosed>>
    /\ UNCHANGED <<vExtract, vCompare, vBatch, vPipeline, vAnalyze, vMain, vOptimize>>

NextSchema == ReadSchema

SpecSchema == InitSchema /\ [][NextSchema]_vars

-----------------------------------------------------------------------------
(* main, main.py 150-215.  What the functions main calls do is in the      *)
(* sections above; here a call is an entry of trace.                       *)

Arguments ==
    [mode : {"evaluate", "single", "optimize"}, skip_model_check : BOOLEAN, test_mode : BOOLEAN,
     question : BOOLEAN, db_id : BOOLEAN]

Worlds == [backend_ok : BOOLEAN, db_exists : BOOLEAN]

InitMain ==
    /\ args \in Arguments
    /\ world \in Worlds
    /\ mpc = "start"
    /\ trace = <<>>
    /\ IdleOptimize
    /\ IdleExtract
    /\ IdleCompare
    /\ IdleBatch
    /\ IdlePipeline
    /\ IdleRuntime
    /\ IdleAnalyze
    /\ IdleSchema

UnchangedByMain ==
    UNCHANGED <<args, world, vExtract, vCompare, vBatch, vPipeline, vRuntime, vAnalyze, vSchema, vOptimize>>

\* a check whose failure is printed and nothing more
HealthCheckPrintOnly ==
    /\ mpc = "start"
    /\ trace' = IF ~args.skip_model_check /\ ~args.test_mode
                THEN Append(trace, "check_ollama") ELSE trace
    /\ mpc' = "dispatch"
    /\ UnchangedByMain

\* lines 180-183: `and` evaluates check_ollama only when neither flag is set
HealthCheck ==
    /\ mpc = "start"
    /\ IF ~args.skip_model_check /\ ~args.test_mode
       THEN /\ trace' = Append(trace, "check_ollama")
            /\ mpc' = IF ~world.backend_ok THEN "done" ELSE "dispatch"
       ELSE /\ trace' = trace
            /\ mpc' = "dispatch"
    /\ UnchangedByMain

\* lines 186-195
Evaluate ==
    /\ mpc = "dispatch"
    /\ args.mode = "evaluate"
    /\ trace' = trace \o <<"load_benchmark_data", "evaluate_on_benchmark",
                           "process_text_to_sql", "execute_query">>
    /\ mpc' = "done"
    /\ UnchangedByMain

\* lines 197-211, and run_single_query, lines 8-69
Single ==
    /\ mpc = "dispatch"
    /\ args.mode = "single"
    /\ trace' = IF ~args.question \/ ~args.db_id \/ ~world.db_exists THEN trace
                ELSE IF args.test_mode
                THEN trace \o <<"run_single_query", "execute_query">>
                ELSE trace \o <<"run_single_query", "process_text_to_sql", "execute_query">>
    /\ mpc' = "done"
    /\ UnchangedByMain

\* lines 213-215
Optimize ==
    /\ mpc = "dispatch"
    /\ args.mode = "optimize"
    /\ trace' = Append(trace, "optimize_prompts")
    /\ mpc' = "done"
    /\ UnchangedByMain

NextMain == HealthCheck \/ Evaluate \/ Single \/ Optimize

SpecMain == InitMain /\ [][NextMain]_vars

-----------------------------------------------------------------------------
(* optimize_prompts, main.py 71-148 *)

\* the records of a results file: three correct ones on two databases, and
\* incorrect ones of four kinds
OptimizeRecords ==
    {[question |-> n, db_id |-> IF n = 3 THEN "db2" ELSE "db",
      gold_query |-> SelectX, predicted_query |-> SelectX, is_correct |-> TRUE,
      gold_results |-> <<>>, pred_results |-> <<>>] : n \in 1..3}
    \cup {[question |-> 4, db_id |-> "db", gold_query |-> g, predicted_query |-> SelectX,
           is_correct |-> FALSE, gold_results |-> <<>>, pred_results |-> <<>>] :
             g \in {SelectX, SelectX \o ClauseJoin, SelectX \o ClauseGroupBy}}
    \cup {[question |-> 5, db_id |-> "db2", gold_query |-> SelectX,
           predicted_query |-> SelectX, is_correct |-> FALSE, error |-> "unhashable type"]}

\* what the results file may hold; one content has no details
OptimizeInputs ==
    {[correct |-> CorrectCount(d), total |-> Len(d), details |-> d] :
        d \in SeqsUpTo(OptimizeRecords, MaxRecords)}
    \cup {[correct |-> 0, total |-> 0]}

\* line 84
IsCorrect(item) == Get(item, "is_correct", FALSE)

\* lines 91-97: one example for each database, in file order
RECURSIVE OnePerDatabase(_, _, _, _)
OnePerDatabase(items, chosen, db_ids, num_examples) ==
    IF items = <<>> \/ Len(chosen) >= num_examples THEN chosen
    ELSE IF Head(items).db_id \notin db_ids
    THEN OnePerDatabase(Tail(items), Append(chosen, Head(items)),
                        db_ids \cup {Head(items).db_id}, num_examples)
    ELSE OnePerDatabase(Tail(items), chosen, db_ids, num_examples)

\* lines 100-105: more examples, none twice
RECURSIVE FillUp(_, _, _)
FillUp(items, chosen, num_examples) ==
    IF items = <<>> \/ Len(chosen) >= num_examples THEN chosen
    ELSE IF Head(items) \notin Range(chosen)
    THEN FillUp(Tail(items), Append(chosen, Head(items)), num_examples)
    ELSE FillUp(Tail(items), chosen, num_examples)

\* lines 84-105
SelectedExamples(r) ==
    LET correct == SelectSeq(r.details, IsCorrect)
        num_examples == Min(MaxExamples, Len(correct))
        first == OnePerDatabase(correct, <<>>, {}, num_examples)
    IN  IF Len(first) < num_examples THEN FillUp(correct, first, num_examples) ELSE first

\* line 121: the three labels counted most often; which of two labels with
\* the same count comes first is left open
CommonErrors(error_types) ==
    {c \in SUBSET DOMAIN error_types :
        /\ Cardinality(c) = Min(MaxCommonErrors, Cardinality(DOMAIN error_types))
        /\ \A a \in c, b \in DOMAIN error_types \ c : error_types[a] >= error_types[b]}

\* lines 124-131: the labels that have a line of guidance
Guided == {"Missing JOIN", "Date Format Error", "Conditional Logic Error", "Missing GROUP BY"}

InitOptimize ==
    /\ results_file \in OptimizeInputs \cup {NoFile}
    /\ selected = Unassigned
    /\ enhanced = NoFile
    /\ opc = "start"
    /\ loaded = Unassigned
    /\ analysis = Unassigned
    /\ apc = "idle"
    /\ IdleExtract
    /\ IdleCompare
    /\ IdleBatch
    /\ IdlePipeline
    /\ IdleRuntime
    /\ IdleSchema
    /\ IdleMain

UnchangedByOptimize ==
    UNCHANGED <<results_file, apc, refcounting, unclosed,
                vExtract, vCompare, vBatch, vPipeline, vSchema, vMain>>

\* lines 73-78
ReadResults ==
    /\ opc = "start"
    /\ IF results_file = NoFile
       THEN opc' = "returned" /\ UNCHANGED loaded
       ELSE opc' = "analyze" /\ loaded' = results_file
    /\ UNCHANGED <<analysis, selected, enhanced, raised>>
    /\ UnchangedByOptimize

\* line 81: the value analyze_errors returns is unpacked into two names
UnpackAnalysis ==
    /\ opc = "analyze"
    /\ LET returned == analyze_errors(loaded)
       IN  IF returned = None
           THEN /\ opc' = "raised"
                /\ raised' = Exception("optimize_prompts",
                                       "cannot unpack non-iterable NoneType object")
                /\ UNCHANGED analysis
           ELSE /\ opc' = "select"
                /\ analysis' = returned
                /\ UNCHANGED raised
    /\ UNCHANGED <<loaded, selected, enhanced>>
    /\ UnchangedByOptimize

\* lines 84-110
SelectExamples ==
    /\ opc = "select"
    /\ selected' = SelectedExamples(loaded)
    /\ opc' = "write"
    /\ UNCHANGED <<loaded, analysis, enhanced, raised>>
    /\ UnchangedByOptimize

\* lines 113-148: the guidance for the common errors and the examples are
\* added to the prompts, and the prompts written
WritePrompts ==
    /\ opc = "write"
    /\ \E common_errors \in CommonErrors(analysis.error_types) :
          enhanced' =
              [guidance |-> IF DOMAIN analysis.error_types # {}
                            THEN common_errors \cap Guided ELSE {},
               examples |-> [i \in DOMAIN selected |->
                                [question |-> selected[i].question,
                                 predicted_query |-> selected[i].predicted_query]]]
    /\ opc' = "returned"
    /\ UNCHANGED <<loaded, analysis, selected, raised>>
    /\ UnchangedByOptimize

NextOptimize == ReadResults \/ UnpackAnalysis \/ SelectExamples \/ WritePrompts

SpecOptimize == InitOptimize /\ [][NextOptimize]_vars

-----------------------------------------------------------------------------
(* Properties of extract_sql *)

Contains(s, p) == \E i \in 1..Len(s) : OccursAt(s, p, i)

\* a ```sql fenced block: an opening ```sql and, after it, a closing ```
FencedBlock(s) ==
    \E i \in 1..Len(s) : \E j \in (i + Len(SqlFence))..Len(s) :
        OccursAt(s, SqlFence, i) /\ OccursAt(s, Fence, j)

TrimmedLines(s) == [i \in 1..Len(Split(s)) |-> Strip(Split(s)[i])]

SelectLines(s) == {i \in 1..Len(Split(s)) : IsSelectLine(TrimmedLines(s)[i])}

FirstSelect(s) == CHOOSE i \in SelectLines(s) : \A j \in SelectLines(s) : i <= j

\* the first line, from the first SELECT line on, that ends in ';'; the last
\* line of the text when none does
LastTaken(s) ==
    LET ends == {j \in FirstSelect(s)..Len(Split(s)) :
                    EndsWith(TrimmedLines(s)[j], <<";">>)}
    IN  IF ends = {} THEN Len(Split(s))
        ELSE CHOOSE j \in ends : \A k \in ends : j <= k

\* C7 as stated: for any SQL string Q, extract_sql of Q wrapped in a ```sql
\* fence is Q.strip().
C7_RoundTripAnyQ == epc = "fenced" => extracted = Strip(q)

\* C7, amended: for any SQL string Q that does not itself contain a ```
\* sequence, extract_sql of "```sql\n" + Q + "\n```" is Q.strip().
C7_RoundTrip == (epc = "fenced" /\ ~Contains(q, Fence)) => extracted = Strip(q)

\* a fenced query of several lines with whitespace around it
C7_Witness ==
    /\ epc = "fenced"
    /\ ~Contains(q, Fence)
    /\ Strip(q) # q
    /\ Contains(Strip(q), <<"NL">>)
    /\ extracted = Strip(q)

\* C8: for a text with no ```sql fenced block and no line that starts with
\* SELECT (in the extractor's sense: trimmed, case-insensitive), extract_sql
\* returns the text unchanged.
C8_Fallback ==
    (epc = "plain" /\ ~FencedBlock(q) /\ SelectLines(q) = {}) => extracted = q

\* a prose text with whitespace at its ends, returned as it is
C8_Witness ==
    /\ epc = "plain"
    /\ ~FencedBlock(q)
    /\ SelectLines(q) = {}
    /\ Len(q) > 1
    /\ Strip(q) # q
    /\ extracted = q

\* C9: with no ```sql fenced block and some line whose trimmed, upper-cased
\* form starts with SELECT, extract_sql returns the trimmed lines from the
\* first such line up to and including the first line ending in ';', joined
\* by single spaces; earlier and later lines are left out.
C9_KeywordScan ==
    (epc = "plain" /\ ~FencedBlock(q) /\ SelectLines(q) # {}) =>
        extracted = Join(SubSeq(TrimmedLines(q), FirstSelect(q), LastTaken(q)))

\* a statement of several lines with a line before it and a line after it
C9_Witness ==
    /\ epc = "plain"
    /\ ~FencedBlock(q)
    /\ SelectLines(q) # {}
    /\ 1 < FirstSelect(q)
    /\ FirstSelect(q) < LastTaken(q)
    /\ LastTaken(q) < Len(Split(q))
    /\ extracted = Join(SubSeq(TrimmedLines(q), FirstSelect(q), LastTaken(q)))

-----------------------------------------------------------------------------
(* Properties of compare_results *)

\* the stringified values of a result's rows
ValueStrings(r) == {Str(r.results[i][j]) : i \in DOMAIN r.results, j \in DOMAIN r.column_names}

ColumnCountsDiffer ==
    /\ ~IsError(cmp_gold)
    /\ ~IsError(cmp_pred)
    /\ Len(cmp_gold.column_names) # Len(cmp_pred.column_names)

\* C10: for two non-error results whose column counts differ,
\* compare_results(A, B) equals compare_results(B, A), and it is true exactly
\* when the stringified values of one side are a subset of the other's.
C10_TolerantSymmetry ==
    (cpc = "both" /\ ColumnCountsDiffer) =>
        /\ cmp = cmpSwapped
        /\ cmp = (\/ ValueStrings(cmp_gold) \subseteq ValueStrings(cmp_pred)
                  \/ ValueStrings(cmp_pred) \subseteq ValueStrings(cmp_gold))

\* the predicted values strictly contain the gold values: true both ways
C10_Witness ==
    /\ cpc = "both"
    /\ ColumnCountsDiffer
    /\ ValueStrings(cmp_gold) # {}
    /\ ValueStrings(cmp_gold) \subseteq ValueStrings(cmp_pred)
    /\ ValueStrings(cmp_gold) # ValueStrings(cmp_pred)
    /\ cmp /\ cmpSwapped

RowSet(r) == {r.results[i] : i \in DOMAIN r.results}

ColumnSet(r) == {r.column_names[i] : i \in DOMAIN r.column_names}

ColumnCountsEqual ==
    /\ ~IsError(cmp_gold)
    /\ ~IsError(cmp_pred)
    /\ Len(cmp_gold.column_names) = Len(cmp_pred.column_names)

\* C11: for two non-error results with equal column counts, row order and
\* duplicate rows do not count: with equal column-name sets the comparison
\* is true exactly when the sets of rows are equal; with different
\* column-name sets it is true exactly when the sets of rows are equal or
\* have the same cardinality.
C11_RowSetComparison ==
    (cpc # "input" /\ ColumnCountsEqual) =>
        cmp = IF ColumnSet(cmp_gold) = ColumnSet(cmp_pred)
              THEN RowSet(cmp_gold) = RowSet(cmp_pred)
              ELSE \/ RowSet(cmp_gold) = RowSet(cmp_pred)
                   \/ Cardinality(RowSet(cmp_gold)) = Cardinality(RowSet(cmp_pred))

\* the same two rows in the other order compare true
C11_Witness ==
    /\ cpc # "input"
    /\ ColumnCountsEqual
    /\ ColumnSet(cmp_gold) = ColumnSet(cmp_pred)
    /\ Len(cmp_gold.results) = 2
    /\ cmp_pred.results = <<cmp_gold.results[2], cmp_gold.results[1]>>
    /\ cmp_gold.results[1] # cmp_gold.results[2]
    /\ cmp

\* the statement without text runs and gives no row and no column
EmptyStatementResult == [results |-> <<>>, column_names |-> <<>>]

\* C19: for two non-error results whose column counts differ,
\* compare_results is true whenever one side has no rows; so the result of
\* the empty SQL string, which runs and has no row and no column, compares
\* true with every gold result that has at least one column.
C19_EmptySideAccepted ==
    /\ (cpc # "input" /\ ColumnCountsDiffer
            /\ (cmp_gold.results = <<>> \/ cmp_pred.results = <<>>)) => cmp
    /\ Fetched(<<>>) = {EmptyStatementResult}
    /\ (cpc # "input" /\ cmp_pred \in Fetched(<<>>) /\ ~IsError(cmp_gold)
            /\ Len(cmp_gold.column_names) >= 1) => cmp

\* the result of the empty statement is judged equal to a gold result with
\* rows
C19_Witness ==
    /\ cpc # "input"
    /\ cmp_pred = EmptyStatementResult
    /\ ~IsError(cmp_gold)
    /\ Len(cmp_gold.results) >= 1
    /\ cmp

-----------------------------------------------------------------------------
(* Properties of process_text_to_sql, execute_query and load_schema *)

RefinerCalls == {i \in DOMAIN calls : calls[i].role = "Refiner"}

Failed(e) == e.outcome.kind = "return" /\ IsError(e.outcome.value)

EveryExecutionFailed == \A i \in DOMAIN execs : Failed(execs[i])

LastCall == calls[Len(calls)]

AtMostOneRepair == Cardinality(RefinerCalls) <= 2 /\ Len(execs) <= 2

\* C1 as stated: the Refiner is invoked at most twice and the query executed
\* at most twice; when every execution returns the error variant the Refiner
\* is invoked exactly twice and the SQL of its second response is returned.
C1_RepairBoundAsStated ==
    /\ AtMostOneRepair
    /\ (ppc = "returned" /\ EveryExecutionFailed) =>
          /\ Cardinality(RefinerCalls) = 2
          /\ LastCall.reply.ok
          /\ ret = extract_sql(LastCall.reply.content)

\* C1, amended: at most two Refiner invocations and two executions; when
\* every execution returns the error variant the Refiner is invoked exactly
\* twice, and the function returns the SQL of the second Refiner response
\* when the repair call yields one, and the SQL of the first Refiner
\* response, executed once, when the repair call raises.
C1_RepairBound ==
    /\ AtMostOneRepair
    /\ (ppc = "returned" /\ EveryExecutionFailed) =>
          /\ Cardinality(RefinerCalls) = 2
          /\ LastCall.role = "Refiner"
          /\ IF LastCall.reply.ok
             THEN Len(execs) = 2 /\ ret = extract_sql(LastCall.reply.content)
             ELSE Len(execs) = 1 /\ ret = extract_sql(calls[3].reply.content)

\* both executions failed and the repaired query, another one, is returned
C1_Witness ==
    /\ ppc = "returned"
    /\ Len(execs) = 2
    /\ EveryExecutionFailed
    /\ Cardinality(RefinerCalls) = 2
    /\ ret = extract_sql(LastCall.reply.content)
    /\ ret # execs[1].query

\* C2 as stated: a first execution without error returns the Refiner's
\* query with no repair request; a first execution with an error sends one
\* repair request with the failed query and the error message, and the SQL
\* of that response is returned whatever its re-execution gives.
C2_FirstExecutionDecidesAsStated ==
    ppc = "returned" =>
        IF ~Failed(execs[1])
        THEN /\ Len(calls) = 3
             /\ ret = extract_sql(calls[3].reply.content)
        ELSE /\ Len(calls) = 4
             /\ LastCall.role = "Refiner"
             /\ LastCall.message.failed_sql = extract_sql(calls[3].reply.content)
             /\ LastCall.message.error = execs[1].outcome.value.error
             /\ LastCall.reply.ok
             /\ ret = extract_sql(LastCall.reply.content)

\* C2, amended: as stated, except that the SQL of the repair response is
\* returned when the repair request yields a response, and the failed SQL
\* itself when the request raises.
C2_FirstExecutionDecides ==
    ppc = "returned" =>
        IF ~Failed(execs[1])
        THEN /\ Len(calls) = 3
             /\ ret = extract_sql(calls[3].reply.content)
        ELSE /\ Len(calls) = 4
             /\ LastCall.role = "Refiner"
             /\ LastCall.message.failed_sql = extract_sql(calls[3].reply.content)
             /\ LastCall.message.error = execs[1].outcome.value.error
             /\ ret = IF LastCall.reply.ok
                      THEN extract_sql(LastCall.reply.content)
                      ELSE extract_sql(calls[3].reply.content)

\* the first execution failed, the repaired query ran, and it is returned
C2_Witness ==
    /\ ppc = "returned"
    /\ Len(execs) = 2
    /\ Failed(execs[1])
    /\ ~Failed(execs[2])
    /\ initial_sql # execs[1].query
    /\ LastCall.message.failed_sql = execs[1].query
    /\ ret = extract_sql(LastCall.reply.content)
    /\ ret # execs[1].query

Roles == [i \in DOMAIN calls |-> calls[i].role]

IsPrefix(s, t) == Len(s) <= Len(t) /\ s = SubSeq(t, 1, Len(s))

\* C3: Selector, Decomposer and Refiner each run once, in that order, before
\* any execution; the Decomposer is given the Selector's output and the
\* Refiner the SQL extracted from the Decomposer's; no stage is skipped,
\* also when an output or the extracted SQL is empty.
C3_StagesInOrder ==
    /\ IsPrefix(Roles, <<"Selector", "Decomposer", "Refiner", "Refiner">>)
    /\ (execs # <<>> \/ ppc \in {"execute", "fix", "verify", "returned"}) =>
          /\ Len(calls) >= 3
          /\ \A i \in 1..3 : calls[i].reply.ok
    /\ ppc = "execute" => (Len(calls) = 3 /\ execs = <<>>)
    /\ Len(calls) = 4 => execs # <<>>
    /\ Len(calls) >= 2 =>
          /\ calls[1].reply.ok
          /\ calls[2].message.selector_output = calls[1].reply.content
    /\ Len(calls) >= 3 =>
          /\ calls[2].reply.ok
          /\ calls[3].message.initial_sql = extract_sql(calls[2].reply.content)

\* a run whose Selector answered nothing and whose Decomposer gave no SQL
\* went through the Refiner and the execution all the same
C3_Witness ==
    /\ ppc = "returned"
    /\ calls[1].reply.content = <<>>
    /\ calls[3].message.initial_sql = <<>>
    /\ Roles[3] = "Refiner"
    /\ execs # <<>>

\* C4: an exception raised while one question is processed never aborts the
\* batch.
C4_BatchNeverAborted ==
    ~(bpc = "aborted"
        /\ raised.origin \in {"load_schema", "Selector", "Decomposer", "Refiner"})

\* C5: execute_query never raises: it returns the results variant, or the
\* error variant with the message of the exception a sqlite3 call raised.
C5_ExecuteNeverRaises ==
    \A i \in DOMAIN execs :
        /\ execs[i].outcome.kind = "return"
        /\ IF execs[i].fault = "none"
           THEN DOMAIN execs[i].outcome.value = {"results", "column_names"}
           ELSE /\ DOMAIN execs[i].outcome.value = {"error"}
                /\ execs[i].outcome.value.error = Message(execs[i].fault)

\* a failing connect and a failing fetchall both came back as error variants
C5_Witness ==
    /\ ppc = "returned"
    /\ Len(execs) = 2
    /\ execs[1].fault = "connect"
    /\ execs[2].fault = "fetchall"
    /\ execs[1].outcome.value = ErrorVariant("unable to open database file")
    /\ execs[2].outcome.value = ErrorVariant("database is locked")

\* C6: every connection load_schema or execute_query opened is closed when
\* the call ends, so none is open between stages or questions.
C6_ConnectionsClosed == unclosed = {}

\* C20: an exception in the execute-and-repair step does not leave
\* process_text_to_sql: the function returns the Refiner's first query when
\* the exception came before the repair response was extracted, and the
\* repaired query after that; an exception in load_schema or in one of the
\* three stages leaves the function.
C20_RepairStepContained ==
    /\ (ppc = "raised") = (raised # NoException)
    /\ ppc = "raised" =>
          /\ execs = <<>>
          /\ Len(calls) <= 3
          /\ IF calls = <<>> THEN raised.origin = "load_schema"
             ELSE ~LastCall.reply.ok /\ raised.origin = LastCall.role
    /\ \A i \in DOMAIN calls : (i <= 3 /\ ~calls[i].reply.ok) => ppc = "raised"
    /\ (Len(calls) = 4 /\ ~calls[4].reply.ok) =>
          /\ ppc = "returned"
          /\ ret = extract_sql(calls[3].reply.content)
    /\ (Len(calls) = 4 /\ calls[4].reply.ok /\ ppc = "returned") =>
          ret = extract_sql(calls[4].reply.content)
    /\ \A i \in DOMAIN execs : execs[i].outcome.kind = "raise" =>
          /\ ppc = "returned"
          /\ ret = execs[i].query

\* the repair call raised and the Refiner's first query, not empty, came back
C20_Witness ==
    /\ ppc = "returned"
    /\ Len(calls) = 4
    /\ ~calls[4].reply.ok
    /\ raised = NoException
    /\ ret = extract_sql(calls[3].reply.content)
    /\ ret # <<>>

-----------------------------------------------------------------------------
(* Properties of analyze_errors *)

Labels ==
    <<"Execution Error", "Empty Query", "Missing JOIN", "Missing WHERE",
      "Missing GROUP BY", "Missing ORDER BY", "Date Format Error",
      "Conditional Logic Error", "Other">>

\* keyword occurs in the raw text whatever the case of its letters
Occurs(keyword, raw) == In(keyword, Lower(raw))

InGoldOnly(keyword, item) ==
    Occurs(keyword, item.gold_query) /\ ~Occurs(keyword, item.predicted_query)

\* the condition of the n-th label of Labels
HoldsAt(item, n) ==
    CASE n = 1 -> "error" \in DOMAIN item
      [] n = 2 -> item.predicted_query = <<>>
      [] n = 3 -> InGoldOnly(<<"join">>, item)
      [] n = 4 -> InGoldOnly(<<"where">>, item)
      [] n = 5 -> InGoldOnly(<<"group", "SP", "by">>, item)
      [] n = 6 -> InGoldOnly(<<"order", "SP", "by">>, item)
      [] n = 7 -> InGoldOnly(<<"strftime">>, item)
      [] n = 8 -> InGoldOnly(<<"iif">>, item)
      [] OTHER -> TRUE

\* the first label whose condition holds, looking from the n-th on
RECURSIVE FirstLabelFrom(_, _)
FirstLabelFrom(item, n) ==
    IF HoldsAt(item, n) THEN Labels[n] ELSE FirstLabelFrom(item, n + 1)

FirstLabel(item) == FirstLabelFrom(item, 1)

IncorrectAt(r) == {i \in DOMAIN r.details : ~r.details[i].is_correct}

CountOf(error_types, label) ==
    IF label \in DOMAIN error_types THEN error_types[label] ELSE 0

RECURSIVE SumUpTo(_, _)
SumUpTo(error_types, n) ==
    IF n = 0 THEN 0 ELSE CountOf(error_types, Labels[n]) + SumUpTo(error_types, n - 1)

\* C13: every incorrect record gets one label, the first in the order of
\* Labels whose condition holds, by substring tests on the gold and the
\* predicted text whatever their case; correct records get none, so the
\* counts add up to the number of incorrect records.
C13_FirstLabelCounts ==
    (apc = "analyzed" /\ "details" \in DOMAIN loaded) =>
        IF IncorrectAt(loaded) = {} THEN analysis = None
        ELSE /\ DOMAIN analysis.error_types \subseteq Range(Labels)
             /\ \A n \in DOMAIN Labels :
                   CountOf(analysis.error_types, Labels[n]) =
                       Cardinality({i \in IncorrectAt(loaded) :
                                       FirstLabel(loaded.details[i]) = Labels[n]})
             /\ SumUpTo(analysis.error_types, Len(Labels)) =
                   Cardinality(IncorrectAt(loaded))

\* a gold query with GROUP BY and later clauses, the prediction SELECT x:
\* Missing GROUP BY; a correct record beside it is not counted
C13_Witness ==
    /\ apc = "analyzed"
    /\ "details" \in DOMAIN loaded
    /\ Len(loaded.details) = 2
    /\ loaded.details[1].is_correct
    /\ ~loaded.details[2].is_correct
    /\ loaded.details[2].gold_query = SelectX \o ClausesFrom(3)
    /\ loaded.details[2].predicted_query = SelectX
    /\ analysis # None
    /\ analysis.error_types = [l \in {"Missing GROUP BY"} |-> 1]

-----------------------------------------------------------------------------
(* Properties of evaluate_on_benchmark *)

\* every way a call of process_text_to_sql ends is one of the ways
\* ProcessQuestion lets it end
ProcessQuestionCoversRun ==
    /\ ppc = "returned" => [value |-> ret, left |-> unclosed] \in ProcessReturns(request.db_id)
    /\ ppc = "raised" =>
          [origin |-> raised.origin, message |-> raised.message, left |-> unclosed]
              \in ProcessRaises(request.db_id)

Started == bpc \in {"loop", "done", "aborted"}

\* the question evaluated last, its record and the two results compared
Evaluated == Started /\ idx >= 1 /\ pred_results # Unassigned /\ gold_results # Unassigned

LastRecord == results.details[idx]

\* C12: compare_results is false whenever the gold or the predicted result
\* is the error variant, whatever the other side is; in a batch run a
\* question with such a result is not counted as correct.
C12_ErrorNeverCorrect ==
    /\ bpc = "start" =>
          \A r \in CompareInputs, e \in {ErrorVariant(Message(f)) : f \in ExecFaults \ {"none"}} :
              ~compare_results(r, e) /\ ~compare_results(e, r) /\ ~compare_results(e, e)
    /\ (Evaluated /\ (IsError(gold_results) \/ IsError(pred_results))) =>
          /\ ~compare_results(gold_results, pred_results)
          /\ ~LastRecord.is_correct
    /\ Started => results.correct = CorrectCount(results.details)

\* the gold query failed, the predicted one gave rows: not correct, and no
\* question counted
C12_Witness ==
    /\ Evaluated
    /\ IsError(gold_results)
    /\ ~IsError(pred_results)
    /\ pred_results.results # <<>>
    /\ ~LastRecord.is_correct
    /\ results.correct = 0

\* C14: the record of a question whose predicted query gave the error
\* variant when executed is labelled Execution Error by analyze_errors.
C14_ExecutionErrorLabelled ==
    (Evaluated /\ IsError(pred_results)) => error_type(LastRecord) = "Execution Error"

\* the index of the question after which the last checkpoint was written
LastCheckpoint ==
    IF idx = Len(benchmark_data) THEN idx ELSE CheckpointEvery * (idx \div CheckpointEvery)

\* the results as they were after the first k questions
ResultsAfter(k) ==
    [correct |-> CorrectCount(SubSeq(results.details, 1, k)),
     total |-> results.total,
     details |-> SubSeq(results.details, 1, k)]

Written == {f \in DOMAIN files : files[f] # NoFile}

\* C15 as stated: every write, checkpoint or final, goes to the one results
\* file and holds {correct, total, accuracy, details}, its details a prefix
\* of the details so far; after every 5th question a write has been made.
C15_OneResultsFileAsStated ==
    Started =>
        /\ \A f \in Written :
              /\ f = OutputFile
              /\ DOMAIN files[f] = {"correct", "total", "accuracy", "details"}
              /\ IsPrefix(files[f].details, results.details)
        /\ idx >= CheckpointEvery => Written # {}

\* C15, amended: after every 5th processed question and after the last one
\* the results accumulated so far, {correct, total, details}, replace the
\* content of the interim file; a run that reaches its end with at least
\* one question selected writes the results, with the accuracy, to the
\* output file, another file; no other write is made, so the details in a
\* file are always a prefix of the details so far.
C15_Checkpoints ==
    Started =>
        /\ files[InterimFile] =
              IF LastCheckpoint = 0 THEN NoFile ELSE ResultsAfter(LastCheckpoint)
        /\ files[OutputFile] = IF bpc = "done" THEN results ELSE NoFile
        /\ bpc = "done" =>
              /\ DOMAIN results = {"correct", "total", "accuracy", "details"}
              /\ results.total >= 1
              /\ files[InterimFile].details = results.details
        /\ (bpc = "aborted" /\ idx = Len(benchmark_data)) => results.total = 0
        /\ \A f \in Written : IsPrefix(files[f].details, results.details)
        /\ InterimFile # OutputFile

\* the checkpoint of the 5th question, with a 6th question processed since
C15_Witness ==
    /\ bpc = "loop"
    /\ Len(benchmark_data) > CheckpointEvery + 1
    /\ idx = CheckpointEvery + 1
    /\ results.correct # files[InterimFile].correct
    /\ Len(files[InterimFile].details) = CheckpointEvery
    /\ files[InterimFile].details # results.details
    /\ files[OutputFile] = NoFile

\* the steps of evaluate_on_benchmark: the sample is the first sample_size
\* items when sample_size > 0 and everything otherwise, and total its size;
\* a record once appended stays as it is, and one is appended at a time
SampleAndAppend ==
    /\ bpc = "start" =>
          /\ benchmark_data' =
                IF sample_size.given /\ sample_size.n > 0
                THEN [i \in 1..Min(sample_size.n, Len(benchmark_data)) |-> benchmark_data[i]]
                ELSE benchmark_data
          /\ results'.total = Len(benchmark_data')
          /\ results'.details = <<>>
          /\ results'.correct = 0
    /\ Started =>
          /\ benchmark_data' = benchmark_data
          /\ results'.total = results.total
          /\ IsPrefix(results.details, results'.details)
          /\ Len(results'.details) = Len(results.details) + (idx' - idx)
          /\ idx' \in {idx, idx + 1}

RecordsInOrder ==
    Started =>
        /\ Len(results.details) = idx
        /\ \A i \in DOMAIN results.details :
              /\ results.details[i].question = benchmark_data[i].question
              /\ results.details[i].gold_query = benchmark_data[i].SQL
        /\ results.correct = CorrectCount(results.details)
        /\ results.correct <= idx
        /\ idx <= results.total
        /\ results.total = Len(benchmark_data)
        /\ bpc = "done" => Len(results.details) = results.total

\* C18: after the k-th question details holds k records in benchmark order,
\* one appended per question and none changed afterwards; correct is the
\* number of records with is_correct, and correct <= k <= total; total is
\* the number of questions selected, the first sample_size items when
\* sample_size > 0 and all otherwise; at completion len(details) = total.
C18_OneRecordPerQuestion == []RecordsInOrder /\ [][SampleAndAppend]_vars

\* a sample of two from a longer steady benchmark, done, one of two correct
C18_Witness ==
    /\ bpc = "done"
    /\ sample_size = [given |-> TRUE, n |-> 2]
    /\ benchmark_data = SteadyBenchmark(2)
    /\ Len(results.details) = 2
    /\ results.total = 2
    /\ results.correct = 1
    /\ results.details[1].is_correct
    /\ ~results.details[2].is_correct

-----------------------------------------------------------------------------
(* Properties of load_schema *)

\* C16: the dictionary load_schema returns has, for every table of the
\* database whatever its name, the descriptor of that table: columns, types
\* aligned with them, at most 3 sample rows; and under foreign_keys the
\* declared foreign keys of all tables.
C16_EveryTableDescribed ==
    spc = "loaded" =>
        /\ \A i \in DOMAIN database :
              /\ database[i].name \in DOMAIN schema
              /\ DOMAIN schema[database[i].name] = {"columns", "types", "sample_data"}
              /\ Len(schema[database[i].name].columns) = Len(database[i].columns)
              /\ Len(schema[database[i].name].types) = Len(database[i].columns)
              /\ Len(schema[database[i].name].sample_data) <= 3
        /\ schema["foreign_keys"] = ForeignKeys(database)

-----------------------------------------------------------------------------
(* Properties of main *)

Processing ==
    {"load_benchmark_data", "evaluate_on_benchmark", "run_single_query",
     "process_text_to_sql", "execute_query", "optimize_prompts"}

NothingProcessed == \A i \in DOMAIN trace : trace[i] \notin Processing

\* C17 as stated: not in test mode and with a backend that fails the health
\* check, main processes nothing, in every mode and with any other flags.
C17_AbortsBeforeProcessingAsStated ==
    (~args.test_mode /\ ~world.backend_ok /\ mpc # "idle") => NothingProcessed

\* C17, amended: in neither test mode nor with skip_model_check, and with a
\* backend that fails the health check, main returns after the check and
\* processes nothing, in every mode and with any other flags; with
\* skip_model_check or in test mode the check is not made.
C17_AbortsBeforeProcessing ==
    mpc # "idle" =>
        /\ (~args.test_mode /\ ~args.skip_model_check /\ ~world.backend_ok) =>
              /\ NothingProcessed
              /\ mpc \in {"start", "done"}
              /\ mpc = "done" => trace = <<"check_ollama">>
        /\ (args.test_mode \/ args.skip_model_check) =>
              \A i \in DOMAIN trace : trace[i] # "check_ollama"

\* an evaluate run that ended at the failed check
C17_Witness ==
    /\ mpc = "done"
    /\ args.mode = "evaluate"
    /\ ~args.test_mode
    /\ ~args.skip_model_check
    /\ ~world.backend_ok
    /\ trace = <<"check_ollama">>

-----------------------------------------------------------------------------
(* Properties of the end of evaluate_on_benchmark *)

\* the accuracy exists only once the loop is over, and is 100 * correct /
\* total; with total = 0 the run has ended in a division by zero and the
\* output file was not written
AccuracyAfterLoop ==
    Started =>
        /\ bpc # "done" => "accuracy" \notin DOMAIN results
        /\ files[InterimFile] # NoFile => "accuracy" \notin DOMAIN files[InterimFile]
        /\ bpc = "done" =>
              /\ idx = Len(benchmark_data)
              /\ results.total > 0
              /\ results.accuracy = <<100 * results.correct, results.total>>
        /\ results.total = 0 =>
              /\ bpc \in {"loop", "aborted"}
              /\ files[OutputFile] = NoFile
              /\ bpc = "aborted" => raised = Exception("accuracy", "division by zero")

\* the steps: a sample size of 0 leaves the benchmark whole; and with
\* total = 0 the only step is the failing division
ZeroSampleAndZeroTotal ==
    /\ (bpc = "start" /\ sample_size = [given |-> TRUE, n |-> 0]) =>
          /\ benchmark_data' = benchmark_data
          /\ results'.total = Len(benchmark_data)
    /\ (bpc = "loop" /\ results.total = 0) =>
          /\ bpc' = "aborted"
          /\ raised' = Exception("accuracy", "division by zero")
          /\ files' = files

\* C21: the accuracy, 100 * correct / total, is computed only after the
\* loop; with an empty selection (total = 0) the run fails with a division
\* by zero before the output file is written; a sample size of 0 is no
\* limit, so the whole benchmark is processed.
C21_AccuracyAndZeroes == []AccuracyAfterLoop /\ [][ZeroSampleAndZeroTotal]_vars

\* an empty benchmark: the division failed and nothing was written
C21_Witness ==
    /\ bpc = "aborted"
    /\ results.total = 0
    /\ raised = Exception("accuracy", "division by zero")
    /\ files[OutputFile] = NoFile
    /\ files[InterimFile] = NoFile

\* a sample size of 0 on the longest benchmark: every question processed
ZeroSampleProcessesAll ==
    /\ bpc = "done"
    /\ sample_size = [given |-> TRUE, n |-> 0]
    /\ Len(results.details) = MaxSteady
    /\ results.total = MaxSteady

-----------------------------------------------------------------------------
(* Properties of optimize_prompts *)

HasIncorrect(r) ==
    "details" \in DOMAIN r /\ \E i \in DOMAIN r.details : ~r.details[i].is_correct

\* C22: analyze_errors returns the pair of dictionaries only for results
\* with an incorrect record, and nothing for results without one or without
\* details; optimize_prompts unpacks what it returns, so on a results file
\* with no incorrect record it fails before it selects examples and writes
\* no enhanced prompts.
C22_AllCorrectFailsOptimize ==
    opc \notin {"idle", "start"} /\ results_file # NoFile =>
        /\ loaded = results_file
        /\ (analyze_errors(loaded) = None) = ~HasIncorrect(loaded)
        /\ HasIncorrect(loaded) =>
              /\ opc \in {"analyze", "select", "write", "returned"}
              /\ opc # "analyze" =>
                    /\ analysis = analyze_errors(loaded)
                    /\ DOMAIN analysis = {"error_types", "db_errors"}
              /\ (enhanced # NoFile) = (opc = "returned")
        /\ ~HasIncorrect(loaded) =>
              /\ opc \in {"analyze", "raised"}
              /\ analysis = Unassigned
              /\ selected = Unassigned
              /\ enhanced = NoFile
              /\ opc = "raised" => raised.origin = "optimize_prompts"

\* a results file with two correct records and no other: the unpacking
\* failed, no example was selected and nothing written
C22_Witness ==
    /\ opc = "raised"
    /\ "details" \in DOMAIN loaded
    /\ Len(loaded.details) = 2
    /\ \A i \in DOMAIN loaded.details : loaded.details[i].is_correct
    /\ raised = Exception("optimize_prompts", "cannot unpack non-iterable NoneType object")
    /\ selected = Unassigned
    /\ enhanced = NoFile

=============================================================================
